---- MODULE Spec2Model ----
(***************************************************************************)
(* multi-ui CLI: the two command-line programs kept in the repository.     *)
(*   V1  the language-only program (src/unnamed/part_000, lines 1-143)      *)
(*   V2  the language-and-path program (src/unnamed/part_000, lines 145-303)*)
(* Both work in the same project root: they share multi-ui.config.json and *)
(* the component directories below the working directory.                  *)
(*                                                                         *)
(* Representation.  A JavaScript string whose characters matter (a         *)
(* component name, a language) is a sequence of one-character strings.  A  *)
(* path is the sequence of its segments, relative to process.cwd().  A     *)
(* console message is a sequence of text fragments; a template literal is  *)
(* the concatenation of its fragments.  The disk accepts every mkdir and   *)
(* write it is asked for (permissions and free space are outside the       *)
(* model); errors that the programs' own state produces (ENOENT from       *)
(* readdirSync, the TypeError of path.join, the SyntaxError of JSON.parse  *)
(* and of Babel) are modelled.                                             *)
(***************************************************************************)
EXTENDS Integers, Sequences, FiniteSets, TLC

\* number of CLI invocations explored in one behaviour
MaxRuns == 3

--------------------------------------------------------------------------
\* Strings

StrJavaScript == <<"J","a","v","a","S","c","r","i","p","t">>
StrTypeScript == <<"T","y","p","e","S","c","r","i","p","t">>
StrJavascriptLower == <<"j","a","v","a","s","c","r","i","p","t">>
StrTypescriptLower == <<"t","y","p","e","s","c","r","i","p","t">>

\* the choices of the inquirer list prompt
LanguageChoices == {StrJavaScript, StrTypeScript}

LowerChar(c) ==
  CASE c = "J" -> "j"
    [] c = "S" -> "s"
    [] c = "T" -> "t"
    [] c = "B" -> "b"
    [] c = "C" -> "c"
    [] OTHER -> c

ToLowerCaseMutant(s) == s
\* String.prototype.toLowerCase
ToLowerCase(s) == [i \in 1..Len(s) |-> LowerChar(s[i])]

\* String.prototype.split("_")[0]: the part before the first underscore
RECURSIVE SplitFirst(_)
SplitFirst(s) ==
  IF s = <<>> \/ Head(s) = "_" THEN <<>>
  ELSE <<Head(s)>> \o SplitFirst(Tail(s))

\* sub occurs in s as a contiguous run
Contains(s, sub) ==
  \E i \in 1..(Len(s) + 1) :
    /\ i + Len(sub) - 1 <= Len(s)
    /\ SubSeq(s, i, i + Len(sub) - 1) = sub

--------------------------------------------------------------------------
\* Paths

RECURSIVE Normalize(_)
Normalize(p) ==
  IF p = <<>> THEN <<>>
  ELSE LET rest == Normalize(SubSeq(p, 1, Len(p) - 1))
           last == p[Len(p)]
       IN  IF last = "" \/ last = "." THEN rest
           ELSE IF last = ".." /\ rest # <<>> /\ rest[Len(rest)] # ".."
                THEN SubSeq(rest, 1, Len(rest) - 1)
                ELSE Append(rest, last)

\* path.join of two relative paths: concatenate, then normalize
PathJoin(a, b) == Normalize(a \o b)

\* `${a}${b}` for a path a that ends with a slash
SlashConcat(a, b) == SubSeq(a, 1, Len(a) - 1) \o b

\* process.cwd() is the root every path is relative to
Cwd == <<>>

MultiUiComponents == <<"multi-ui", "components">>

\* "src/app/"
DEFAULT_COMPONENT_PATH == <<"src", "app", "">>

\* the answers tried at the directory prompt: "app/", the default "src/app/", "."
DirectoryAnswers == {<<"app", "">>, DEFAULT_COMPONENT_PATH, <<".">>}

\* every non-empty prefix of a directory path (mkdir -p creates the parents)
Prefixes(d) == {SubSeq(d, 1, n) : n \in 1..Len(d)}

--------------------------------------------------------------------------
\* JSON text of the preference file: one line per brace and per field, as
\* JSON.stringify(obj, null, 2) writes it.  A field's line is its key
\* followed by its value.

KeyOrder == <<"language", "componentPath">>

RECURSIVE FieldLines(_, _)
FieldLines(obj, keys) ==
  IF keys = <<>> THEN <<>>
  ELSE IF Head(keys) \in DOMAIN obj
       THEN <<<<Head(keys)>> \o obj[Head(keys)]>> \o FieldLines(obj, Tail(keys))
       ELSE FieldLines(obj, Tail(keys))

JSONstringify(obj) == <<<<"{">>>> \o FieldLines(obj, KeyOrder) \o <<<<"}">>>>

JSONparses(text) ==
  /\ Len(text) >= 2
  /\ text[1] = <<"{">>
  /\ text[Len(text)] = <<"}">>
  /\ \A i \in 2..(Len(text) - 1) : Len(text[i]) >= 1 /\ text[i][1] \notin {"{", "}"}

JSONparse(text) ==
  LET idx == 2..(Len(text) - 1)
      keys == {text[i][1] : i \in idx}
  IN  [k \in keys |-> Tail(text[CHOOSE i \in idx : text[i][1] = k /\ \A j \in idx : text[j][1] = k => j <= i])]

\* a preference file cut short by hand
MalformedText == <<<<"{">>, <<"language">> \o StrTypescriptLower>>

\* property access obj.key: a defined value or undefined
Get(obj, key) ==
  IF key \in DOMAIN obj THEN [def |-> TRUE, v |-> obj[key]]
  ELSE [def |-> FALSE, v |-> <<>>]

--------------------------------------------------------------------------
\* Errors and console

ErrorObj(msg) == [kind |-> "Error", message |-> msg]
\* a rejection with a bare string
StringReject(msg) == [kind |-> "string", message |-> msg]
NoError == [kind |-> "none", message |-> <<>>]

\* error.message: undefined on a string
MessageOf(e) == IF e.kind = "Error" THEN e.message ELSE <<"undefined">>

\* console.error("...", error): the error itself is printed
Inspect(e) == e.message

Out(text) == [stream |-> "stdout", text |-> text]
Err(text) == [stream |-> "stderr", text |-> text]

--------------------------------------------------------------------------
\* Remote host and Babel

ComponentNames == {<<"B", "_", "1">>, <<"C">>}

\* process.argv[3]: a name, the empty string, or missing
NameArgs ==
  {[given |-> TRUE, value |-> n] : n \in ComponentNames \cup {<<>>}}
    \cup {[given |-> FALSE, value |-> <<>>]}

\* a component name used as one path segment
Segment(name) ==
  CASE name = <<"B", "_", "1">> -> "B_1"
    [] name = <<"C">> -> "C"
    [] OTHER -> ""

TruthyMutant(arg) == arg.given
\* JavaScript truthiness of componentName
Truthy(arg) == arg.given /\ arg.value # <<>>

\* process.argv[2]
ActionArgs == {"setup", "add", "list", "undefined"}

\* source texts the host serves: tokens of plain code, type annotations,
\* JSX, and text Babel cannot parse
Bodies == {<<"code">>, <<"code", "type", "jsx">>, <<"code", "bad">>}

\* 0 stands for a transport failure (no response at all)
Statuses == {200, 204, 404, 500, 0}

Responses ==
  {[status |-> 200, data |-> b] : b \in Bodies}
    \cup {[status |-> s, data |-> <<>>] : s \in Statuses \ {200}}

StatusText(s) ==
  CASE s = 200 -> "OK"
    [] s = 204 -> "No Content"
    [] s = 404 -> "Not Found"
    [] s = 500 -> "Internal Server Error"
    [] OTHER -> ""

StatusCode(s) ==
  CASE s = 200 -> "200"
    [] s = 204 -> "204"
    [] s = 404 -> "404"
    [] s = 500 -> "500"
    [] OTHER -> "0"

\* axios.get: resolves on 2xx, rejects otherwise; error.response is set only
\* when the host answered
AxiosGet(resp) ==
  IF resp.status \in {200, 204}
  THEN [resolved |-> TRUE, status |-> resp.status, data |-> resp.data,
        error |-> NoError, hasResponse |-> TRUE]
  ELSE IF resp.status = 0
  THEN [resolved |-> FALSE, status |-> 0, data |-> <<>>,
        error |-> ErrorObj(<<"Network Error">>), hasResponse |-> FALSE]
  ELSE [resolved |-> FALSE, status |-> resp.status, data |-> <<>>,
        error |-> ErrorObj(<<"Request failed with status code ", StatusCode(resp.status)>>),
        hasResponse |-> TRUE]

\* babel.transformSync with preset-react and preset-typescript
BabelParses(code) == \A i \in 1..Len(code) : code[i] # "bad"

RECURSIVE BabelCode(_)
BabelCode(code) ==
  IF code = <<>> THEN <<>>
  ELSE IF Head(code) = "type" THEN BabelCode(Tail(code))
  ELSE IF Head(code) = "jsx" THEN <<"createElement">> \o BabelCode(Tail(code))
  ELSE <<Head(code)>> \o BabelCode(Tail(code))

BabelTransformSync(code) ==
  IF BabelParses(code)
  THEN [ok |-> TRUE, code |-> BabelCode(code), error |-> NoError]
  ELSE [ok |-> FALSE, code |-> <<>>, error |-> ErrorObj(<<"SyntaxError: Unexpected token">>)]

--------------------------------------------------------------------------
\* State

VARIABLES
  config,     \* multi-ui.config.json: [exists, text]
  dirs,       \* the directories that exist below the working directory
  files,      \* the component files: a set of [path, content], one per path
  pc,         \* where the running invocation is; "idle" between invocations
  runs,       \* invocations started so far
  log,        \* what the current (or last) invocation printed
  inv,        \* the current (or last) invocation: its arguments, its locals, what it did
  lastSetup   \* the prompt answers of the last setup that wrote the preference file

vars == <<config, dirs, files, pc, runs, log, inv, lastSetup>>

GITHUB_REPO == "om0852/multi-ui"
COMPONENTS_PATH == "src/app"

NoPreference == [k \in {} |-> <<>>]
Undefined == [def |-> FALSE, v |-> <<>>]

FilePath(dir, name, ext) == [dir |-> dir, name |-> name, ext |-> ext]

\* the path as it appears in a message
FileText(p) == p.dir \o p.name \o <<".", p.ext>>

\* fs.writeFileSync: create or overwrite
WriteFileSyncMutant(fs, p, content) ==
  IF \E f \in fs : f.path = p THEN fs ELSE fs \cup {[path |-> p, content |-> content]}
WriteFileSync(fs, p, content) ==
  {f \in fs : f.path # p} \cup {[path |-> p, content |-> content]}

\* fs.ensureDirSync / fs.mkdirSync(..., {recursive: true})
EnsureDirSync(ds, d) == ds \cup Prefixes(d)

ContentAt(fs, p) == {f.content : f \in {g \in fs : g.path = p}}

FreshInvocation(variant, action, name) ==
  [variant |-> variant, action |-> action, name |-> name,
   snapConfig |-> config, snapDirs |-> dirs, snapFiles |-> files,
   installer |-> "none", prompted |-> FALSE, wroteConfig |-> FALSE,
   prefState |-> "unread", pref |-> NoPreference,
   language |-> Undefined, componentDir |-> <<>>, dirDefined |-> FALSE,
   requests |-> <<>>, status |-> -1, body |-> <<>>,
   transformCalled |-> FALSE, transformOk |-> FALSE,
   written |-> {}, outcome |-> "running", raised |-> NoError]

Init ==
  /\ config \in {[exists |-> FALSE, text |-> <<>>], [exists |-> TRUE, text |-> MalformedText]}
  /\ dirs = {}
  /\ files = {}
  /\ pc = "idle"
  /\ runs = 0
  /\ log = <<>>
  /\ inv = [FreshInvocation(0, "undefined", [given |-> FALSE, value |-> <<>>]) EXCEPT !.outcome = "none"]
  /\ lastSetup = [variant |-> 0, language |-> <<>>, directory |-> <<>>]

--------------------------------------------------------------------------
\* V1: the language-only program

UsageV1 ==
  <<"Usage:\n  npx multi-ui setup         - Set up the project\n  npx multi-ui add <ComponentName> - Create a new component">>

\* main: dispatch on process.argv
MainV1 ==
  /\ pc = "idle"
  /\ runs < MaxRuns
  /\ \E action \in ActionArgs, name \in NameArgs :
       /\ runs' = runs + 1
       /\ IF action = "setup"
          THEN /\ pc' = "v1_setup"
               /\ log' = <<>>
               /\ inv' = FreshInvocation(1, action, name)
          ELSE IF action = "add" /\ Truthy(name)
          THEN /\ pc' = "v1_add"
               /\ log' = <<>>
               /\ inv' = FreshInvocation(1, action, name)
          ELSE /\ pc' = "idle"
               /\ log' = <<Out(UsageV1)>>
               /\ inv' = [FreshInvocation(1, action, name) EXCEPT !.outcome = "usage"]
  /\ UNCHANGED <<config, dirs, files, lastSetup>>

\* setupProject: prompt for the language, save it
SetupProjectV1 ==
  /\ pc = "v1_setup"
  /\ pc' = "idle"
  /\ \/ \E language \in LanguageChoices :
          LET preference == [language |-> ToLowerCase(language)]
          IN  /\ config' = [exists |-> TRUE, text |-> JSONstringify(preference)]
              /\ log' = Append(log, Out(<<"Project setup complete! Language preference saved: ">> \o language))
              /\ inv' = [inv EXCEPT !.prompted = TRUE, !.wroteConfig = TRUE, !.outcome = "completed"]
              /\ lastSetup' = [variant |-> 1, language |-> language, directory |-> <<>>]
     \/ \* the prompt rejects (the user closes it)
        LET error == ErrorObj(<<"User force closed the prompt">>)
        IN  /\ log' = Append(log, Err(<<"Error during setup:">> \o Inspect(error)))
            /\ inv' = [inv EXCEPT !.prompted = TRUE, !.outcome = "caught", !.raised = error]
            /\ UNCHANGED <<config, lastSetup>>
  /\ UNCHANGED <<dirs, files, runs>>

\* getPreference: the stored language, or typescript with a warning
getPreferenceV1(cfg) ==
  IF cfg.exists
  THEN IF JSONparses(cfg.text)
       THEN [threw |-> FALSE, state |-> "stored", pref |-> JSONparse(cfg.text),
             language |-> Get(JSONparse(cfg.text), "language"), log |-> <<>>, error |-> NoError]
       ELSE [threw |-> TRUE, state |-> "threw", pref |-> NoPreference,
             language |-> Undefined, log |-> <<>>,
             error |-> ErrorObj(<<"SyntaxError: Unexpected end of JSON input">>)]
  ELSE [threw |-> FALSE, state |-> "default", pref |-> NoPreference,
        language |-> [def |-> TRUE, v |-> StrTypescriptLower],
        log |-> <<Err(<<"No preference found. Defaulting to TypeScript.">>)>>, error |-> NoError]

Extension(language) ==
  IF language.def /\ language.v = StrJavascriptLower THEN "jsx" ELSE "tsx"

UrlV1(componentName) ==
  <<"https://raw.githubusercontent.com/", GITHUB_REPO, "/main/", COMPONENTS_PATH, "/">>
    \o SplitFirst(ToLowerCase(componentName)) \o <<"/_components/">> \o componentName \o <<".tsx">>

\* createComponent up to the await of the fetch
CreateComponentV1 ==
  /\ pc = "v1_add"
  /\ LET p == getPreferenceV1(config)
         componentPath == PathJoin(Cwd, MultiUiComponents)
         componentName == inv.name.value
     IN  IF p.threw
         THEN /\ pc' = "idle"
              /\ log' = log \o p.log \o <<Err(<<"Error creating component:">> \o Inspect(p.error))>>
              /\ inv' = [inv EXCEPT !.prefState = p.state, !.outcome = "caught", !.raised = p.error]
              /\ UNCHANGED dirs
         ELSE /\ pc' = "v1_fetch"
              /\ dirs' = IF componentPath \in dirs THEN dirs ELSE EnsureDirSync(dirs, componentPath)
              /\ log' = log \o p.log \o <<Out(<<"Fetching ">> \o componentName \o <<" from GitHub...">>)>>
              /\ inv' = [inv EXCEPT !.prefState = p.state, !.pref = p.pref,
                                    !.language = p.language,
                                    !.componentDir = componentPath, !.dirDefined = TRUE,
                                    !.requests = Append(@, UrlV1(componentName))]
  /\ UNCHANGED <<config, files, runs, lastSetup>>

\* fetchComponentFromGitHub, from the answer of the host on
fetchComponentFromGitHubV1(componentName, resp) ==
  LET r == AxiosGet(resp)
      error == IF r.resolved
               THEN ErrorObj(<<"Failed to fetch component from GitHub: ", StatusCode(r.status)>>)
               ELSE r.error
  IN  IF r.resolved /\ r.status = 200
      THEN [ok |-> TRUE, data |-> r.data, error |-> NoError, log |-> <<>>]
      ELSE [ok |-> FALSE, data |-> <<>>, error |-> error,
            log |-> <<Err(<<"Error fetching component from GitHub:">> \o MessageOf(error))>>]

\* convertTsxToJsx(inputDir, outputDir): convert the .tsx files of a directory.
\* The files before the first one Babel rejects are written.
convertTsxToJsxV1(ds, fs, inputDir, outputDir) ==
  IF inputDir \notin ds
  THEN {[ok |-> FALSE, dirs |-> ds, files |-> fs, written |-> {}, called |-> FALSE,
         error |-> ErrorObj(<<"ENOENT: no such file or directory, scandir">>), log |-> <<>>]}
  ELSE LET tsx == {f \in fs : f.path.dir = inputDir /\ f.path.ext = "tsx"}
           good == {f \in tsx : BabelParses(f.content)}
           outOf(S) == {[path |-> FilePath(outputDir, f.path.name, "jsx"),
                         content |-> BabelTransformSync(f.content).code] : f \in S}
           put(S) == {f \in fs : f.path \notin {g.path : g \in outOf(S)}} \cup outOf(S)
       IN  IF good = tsx
           THEN {[ok |-> TRUE, dirs |-> IF tsx = {} THEN ds ELSE EnsureDirSync(ds, outputDir),
                  files |-> put(tsx), written |-> {g.path : g \in outOf(tsx)},
                  called |-> tsx # {}, error |-> NoError, log |-> <<>>]}
           ELSE {[ok |-> FALSE, dirs |-> IF S = {} THEN ds ELSE EnsureDirSync(ds, outputDir),
                  files |-> put(S), written |-> {g.path : g \in outOf(S)},
                  called |-> TRUE, error |-> ErrorObj(<<"SyntaxError: Unexpected token">>),
                  log |-> <<>>] : S \in SUBSET good}

\* createComponent from the answer of the host on
CreateComponentResumeV1 ==
  /\ pc = "v1_fetch"
  /\ pc' = "idle"
  /\ \E resp \in Responses :
       LET componentName == inv.name.value
           extension == Extension(inv.language)
           componentFile == FilePath(inv.componentDir, componentName, extension)
           f == fetchComponentFromGitHubV1(componentName, resp)
           seen == [inv EXCEPT !.status = resp.status, !.body = resp.data]
       IN  IF ~f.ok
           THEN /\ log' = log \o f.log \o <<Err(<<"Error creating component:">> \o Inspect(f.error))>>
                /\ inv' = [seen EXCEPT !.outcome = "caught", !.raised = f.error]
                /\ UNCHANGED <<dirs, files>>
           ELSE IF inv.language.def /\ inv.language.v = StrJavascriptLower
           THEN \E c \in convertTsxToJsxV1(dirs, files,
                           PathJoin(Cwd, MultiUiComponents \o <<Segment(componentName)>>),
                           PathJoin(Cwd, MultiUiComponents \o <<"converted">>)) :
                  /\ dirs' = c.dirs
                  /\ files' = c.files
                  /\ log' = log \o <<Out(<<"Converting ">> \o componentName \o <<" to JavaScript...">>)>>
                              \o (IF c.ok THEN <<>>
                                  ELSE <<Err(<<"Error creating component:">> \o Inspect(c.error))>>)
                  /\ inv' = [seen EXCEPT !.transformCalled = c.called, !.transformOk = c.ok,
                                         !.written = c.written,
                                         !.outcome = IF c.ok THEN "completed" ELSE "caught",
                                         !.raised = c.error]
           ELSE /\ files' = WriteFileSync(files, componentFile, f.data)
                /\ log' = Append(log, Out(componentName \o <<" created at ">> \o FileText(componentFile)))
                /\ inv' = [seen EXCEPT !.written = {componentFile}, !.outcome = "completed"]
                /\ UNCHANGED dirs
  /\ UNCHANGED <<config, runs, lastSetup>>

--------------------------------------------------------------------------
\* V2: the language-and-path program

UsageV2 ==
  <<"\nUsage:\n  npx multi-ui setup          - Set up the project (choose language and path)\n  npx multi-ui add <ComponentName> - Create a new component\n      ">>

MissingNameV2 ==
  <<"Please provide a component name. Usage: npx multi-ui add <ComponentName>">>

\* main().catch: what escapes main is printed by the top-level handler
UnexpectedError(e) == Err(<<"Unexpected error:">> \o MessageOf(e))

\* main: the switch on process.argv
MainV2 ==
  /\ pc = "idle"
  /\ runs < MaxRuns
  /\ \E action \in ActionArgs, name \in NameArgs :
       /\ runs' = runs + 1
       /\ IF action = "setup"
          THEN /\ pc' = "v2_install"
               /\ log' = <<>>
               /\ inv' = FreshInvocation(2, action, name)
          ELSE IF action = "add"
          THEN IF ~Truthy(name)
               THEN /\ pc' = "idle"
                    /\ log' = <<Err(MissingNameV2)>>
                    /\ inv' = [FreshInvocation(2, action, name) EXCEPT !.outcome = "usage"]
               ELSE /\ pc' = "v2_add"
                    /\ log' = <<>>
                    /\ inv' = FreshInvocation(2, action, name)
          ELSE /\ pc' = "idle"
               /\ log' = <<Out(UsageV2)>>
               /\ inv' = [FreshInvocation(2, action, name) EXCEPT !.outcome = "usage"]
  /\ UNCHANGED <<config, dirs, files, lastSetup>>

\* installBabelPresets, awaited by main before setupProject: npm install
\* succeeds, or the promise rejects with a string and main rejects with it
InstallBabelPresets ==
  /\ pc = "v2_install"
  /\ \/ /\ pc' = "v2_setup"
        /\ inv' = [inv EXCEPT !.installer = "ok"]
        /\ UNCHANGED log
     \/ LET error == StringReject(<<"Error installing Babel presets: ", "npm ERR!">>)
        IN  /\ pc' = "idle"
            /\ log' = Append(log, UnexpectedError(error))
            /\ inv' = [inv EXCEPT !.installer = "failed", !.outcome = "toplevel", !.raised = error]
  /\ UNCHANGED <<config, dirs, files, runs, lastSetup>>

\* setupProject: prompt for language and directory, save both
SetupProjectV2 ==
  /\ pc = "v2_setup"
  /\ pc' = "idle"
  /\ \/ \E language \in LanguageChoices, directory \in DirectoryAnswers :
          LET resolvedPath == PathJoin(directory, MultiUiComponents)
              cfg == [language |-> ToLowerCase(language), componentPath |-> resolvedPath]
          IN  /\ config' = [exists |-> TRUE, text |-> JSONstringify(cfg)]
              /\ log' = Append(log, Out(<<"Setup complete! Language: ">> \o language
                                         \o <<", Components Path: ">> \o resolvedPath))
              /\ inv' = [inv EXCEPT !.prompted = TRUE, !.wroteConfig = TRUE, !.outcome = "completed"]
              /\ lastSetup' = [variant |-> 2, language |-> language, directory |-> directory]
     \/ \* the prompt rejects (the user closes it)
        LET error == ErrorObj(<<"User force closed the prompt">>)
        IN  /\ log' = Append(log, Err(<<"Setup failed:">> \o MessageOf(error)))
            /\ inv' = [inv EXCEPT !.prompted = TRUE, !.outcome = "caught", !.raised = error]
            /\ UNCHANGED <<config, lastSetup>>
  /\ UNCHANGED <<dirs, files, runs>>

DefaultPreferenceMutant ==
  [language |-> StrJavascriptLower,
   componentPath |-> SlashConcat(DEFAULT_COMPONENT_PATH, MultiUiComponents)]
\* the object getPreference returns when there is no file
DefaultPreference ==
  [language |-> StrTypescriptLower,
   componentPath |-> SlashConcat(DEFAULT_COMPONENT_PATH, MultiUiComponents)]

\* getPreference: the stored object, or the default with a warning
getPreferenceV2(cfg) ==
  IF cfg.exists
  THEN IF JSONparses(cfg.text)
       THEN [threw |-> FALSE, state |-> "stored", pref |-> JSONparse(cfg.text),
             log |-> <<>>, error |-> NoError]
       ELSE [threw |-> TRUE, state |-> "threw", pref |-> NoPreference, log |-> <<>>,
             error |-> ErrorObj(<<"SyntaxError: Unexpected end of JSON input">>)]
  ELSE [threw |-> FALSE, state |-> "default", pref |-> DefaultPreference,
        log |-> <<Err(<<"No preference found. Defaulting to TypeScript and default folder structure.">>)>>,
        error |-> NoError]

UrlV2(componentName) ==
  <<"https://raw.githubusercontent.com/", GITHUB_REPO, "/main/app/">>
    \o SplitFirst(ToLowerCase(componentName)) \o <<"/_components/">> \o componentName \o <<".tsx">>

\* createComponent up to the await of the fetch.  getPreference and
\* path.join run before the try block: what they throw leaves createComponent
\* and main, and reaches main().catch
CreateComponentV2 ==
  /\ pc = "v2_add"
  /\ LET p == getPreferenceV2(config)
         language == Get(p.pref, "language")
         componentPath == Get(p.pref, "componentPath")
         componentName == inv.name.value
         read == [inv EXCEPT !.prefState = p.state, !.pref = p.pref, !.language = language]
     IN  IF p.threw
         THEN /\ pc' = "idle"
              /\ log' = log \o p.log \o <<UnexpectedError(p.error)>>
              /\ inv' = [read EXCEPT !.outcome = "toplevel", !.raised = p.error]
              /\ UNCHANGED dirs
         ELSE IF ~componentPath.def
         THEN LET error == ErrorObj(<<"The \"path\" argument must be of type string. Received undefined">>)
              IN  /\ pc' = "idle"
                  /\ log' = log \o p.log \o <<UnexpectedError(error)>>
                  /\ inv' = [read EXCEPT !.outcome = "toplevel", !.raised = error]
                  /\ UNCHANGED dirs
         ELSE LET componentDir == PathJoin(Cwd, componentPath.v)
              IN  /\ pc' = "v2_fetch"
                  /\ dirs' = EnsureDirSync(dirs, componentDir)
                  /\ log' = log \o p.log \o <<Out(<<"Fetching ">> \o componentName \o <<" from GitHub...">>)>>
                  /\ inv' = [read EXCEPT !.componentDir = componentDir, !.dirDefined = TRUE,
                                         !.requests = Append(@, UrlV2(componentName))]
  /\ UNCHANGED <<config, files, runs, lastSetup>>

NotFoundMessageMutant(componentName, url) ==
  <<"Component '">> \o componentName \o <<"' not found.\nPlease check the component name and path.">>
NotFoundMessage(componentName, url) ==
  <<"Component '">> \o componentName \o <<"' not found at path: ">> \o url
    \o <<"\nPlease check the component name and path.">>

fetchComponentFromGitHubV2Mutant(componentName, resp) ==
  LET url == UrlV2(componentName)
      r == AxiosGet(resp)
  IN  IF r.resolved
      THEN [ok |-> TRUE, data |-> r.data, error |-> NoError]
      ELSE IF r.hasResponse /\ r.status = 404
      THEN [ok |-> FALSE, data |-> <<>>, error |-> ErrorObj(NotFoundMessage(componentName, url))]
      ELSE [ok |-> FALSE, data |-> <<>>,
            error |-> ErrorObj(<<"Error fetching component: ">> \o r.error.message)]
\* fetchComponentFromGitHub, from the answer of the host on
fetchComponentFromGitHubV2(componentName, resp) ==
  LET url == UrlV2(componentName)
      r == AxiosGet(resp)
      error == IF r.resolved
               THEN ErrorObj(<<"Failed to fetch component: ", StatusText(r.status)>>)
               ELSE r.error
  IN  IF r.resolved /\ r.status = 200
      THEN [ok |-> TRUE, data |-> r.data, error |-> NoError]
      ELSE IF ~r.resolved /\ r.hasResponse /\ r.status = 404
      THEN [ok |-> FALSE, data |-> <<>>, error |-> ErrorObj(NotFoundMessage(componentName, url))]
      ELSE [ok |-> FALSE, data |-> <<>>,
            error |-> ErrorObj(<<"Error fetching component: ">> \o error.message)]

convertTsxToJsxV2Mutant(tsxCode) ==
  [ok |-> TRUE, code |-> BabelCode(tsxCode), error |-> NoError]
\* convertTsxToJsx(tsxCode, fileName)
convertTsxToJsxV2(tsxCode) == BabelTransformSync(tsxCode)

\* createComponent from the answer of the host on
CreateComponentResumeV2 ==
  /\ pc = "v2_fetch"
  /\ pc' = "idle"
  /\ \E resp \in Responses :
       LET componentName == inv.name.value
           extension == Extension(inv.language)
           componentFile == FilePath(inv.componentDir, componentName, extension)
           f == fetchComponentFromGitHubV2(componentName, resp)
           isJs == inv.language.def /\ inv.language.v = StrJavascriptLower
           t == convertTsxToJsxV2(f.data)
           seen == [inv EXCEPT !.status = resp.status, !.body = resp.data]
       IN  IF ~f.ok
           THEN /\ log' = Append(log, Err(<<"Error creating component:">> \o MessageOf(f.error)))
                /\ inv' = [seen EXCEPT !.outcome = "caught", !.raised = f.error]
                /\ UNCHANGED files
           ELSE IF isJs /\ ~t.ok
           THEN /\ log' = Append(log, Err(<<"Error creating component:">> \o MessageOf(t.error)))
                /\ inv' = [seen EXCEPT !.transformCalled = TRUE, !.outcome = "caught",
                                       !.raised = t.error]
                /\ UNCHANGED files
           ELSE /\ files' = WriteFileSync(files, componentFile, IF isJs THEN t.code ELSE f.data)
                /\ log' = Append(log, Out(<<"Component created at: ">> \o FileText(componentFile)))
                /\ inv' = [seen EXCEPT !.transformCalled = isJs, !.transformOk = isJs,
                                       !.written = {componentFile}, !.outcome = "completed"]
  /\ UNCHANGED <<config, dirs, runs, lastSetup>>

--------------------------------------------------------------------------

Next ==
  \/ MainV1
  \/ SetupProjectV1
  \/ CreateComponentV1
  \/ CreateComponentResumeV1
  \/ MainV2
  \/ InstallBabelPresets
  \/ SetupProjectV2
  \/ CreateComponentV2
  \/ CreateComponentResumeV2

Spec == Init /\ [][Next]_vars

--------------------------------------------------------------------------
\* Vocabulary of the properties

\* the last invocation has ended
Ended == pc = "idle" /\ inv.variant # 0

\* the invocation is `add <ComponentName>` with a usable name
IsAdd == inv.action = "add" /\ inv.name.given /\ inv.name.value # <<>>

PrefRead == inv.prefState \in {"stored", "default"}

WantsJs == "language" \in DOMAIN inv.pref /\ inv.pref["language"] = StrJavascriptLower

Logged(stream, part) ==
  \E i \in 1..Len(log) : log[i].stream = stream /\ Contains(log[i].text, part)

MissingFileWarnings ==
  {<<"No preference found. Defaulting to TypeScript.">>,
   <<"No preference found. Defaulting to TypeScript and default folder structure.">>}

Warned == \E i \in 1..Len(log) : log[i].stream = "stderr" /\ log[i].text \in MissingFileWarnings

HardcodedDefaultDir == <<"src", "app", "multi-ui", "components">>

SameExcept(fs, gs, p) ==
  /\ \A f \in fs : f.path # p => f \in gs
  /\ \A g \in gs : g.path # p => g \in fs

--------------------------------------------------------------------------
\* C1: when `add N` of the language-and-path program has read a preference
\* with both fields and the host answered 200 with body B (and, for
\* javascript, B transforms), then at the end <componentPath>/N.<ext> holds
\* the transformed B under ext jsx for javascript and exactly B under ext tsx
\* otherwise, whether or not the file existed before, and every other
\* component file is as it was.
C1_AddMaterializes ==
  (/\ Ended /\ IsAdd /\ inv.variant = 2 /\ PrefRead
   /\ {"language", "componentPath"} \subseteq DOMAIN inv.pref
   /\ inv.status = 200
   /\ (WantsJs => BabelParses(inv.body)))
  => LET target == FilePath(PathJoin(Cwd, inv.pref["componentPath"]), inv.name.value,
                            IF WantsJs THEN "jsx" ELSE "tsx")
     IN  /\ ContentAt(files, target) = {IF WantsJs THEN BabelCode(inv.body) ELSE inv.body}
         /\ SameExcept(files, inv.snapFiles, target)

\* an add for javascript has replaced an older, different Button-like file by
\* the transformed body, which differs from the body served
C1_Witness ==
  /\ Ended /\ IsAdd /\ inv.variant = 2 /\ inv.status = 200 /\ WantsJs
  /\ inv.body = <<"code", "type", "jsx">>
  /\ \E f \in files : /\ f.path.ext = "jsx" /\ f.path.name = inv.name.value
                      /\ f.content = <<"code", "createElement">>
                      /\ ContentAt(inv.snapFiles, f.path) = {<<"code">>}

\* C2: when `add N` of the language-and-path program gets a 404, no component
\* file is written (a file at the output path keeps its content) and an error
\* line names both N and the URL that was requested.
C2_NotFound ==
  (Ended /\ IsAdd /\ inv.variant = 2 /\ inv.status = 404)
  => /\ inv.written = {}
     /\ files = inv.snapFiles
     /\ Len(inv.requests) = 1
     /\ \E i \in 1..Len(log) :
          /\ log[i].stream = "stderr"
          /\ Contains(log[i].text, <<"Component '">> \o inv.name.value)
          /\ Contains(log[i].text, inv.requests[1])

\* a 404 for B_1 while B_1.tsx exists at the output path from an earlier add
C2_Witness ==
  /\ Ended /\ IsAdd /\ inv.variant = 2 /\ inv.status = 404
  /\ inv.name.value = <<"B", "_", "1">>
  /\ inv.requests = <<<<"https://raw.githubusercontent.com/", "om0852/multi-ui", "/main/app/",
                        "b", "/_components/", "B", "_", "1", ".tsx">>>>
  /\ \E f \in files : f.path = FilePath(inv.componentDir, inv.name.value, Extension(inv.language))

\* C3: after a setup has saved the answers (L, D), every later preference
\* read, as long as no other setup ran, whatever adds ran in between, returns
\* exactly {language: lowercase(L), componentPath: D joined with
\* multi-ui/components}; after a language-only setup it returns exactly
\* {language: lowercase(L)}.
C3_PreferenceRoundTrip ==
  (IsAdd /\ inv.prefState # "unread" /\ lastSetup.variant # 0)
  => LET lower == IF lastSetup.language = StrJavaScript THEN StrJavascriptLower
                  ELSE StrTypescriptLower
     IN  /\ inv.prefState = "stored"
         /\ inv.language = [def |-> TRUE, v |-> lower]
         /\ (inv.variant = 2 /\ lastSetup.variant = 2)
              => inv.pref = [language |-> lower,
                             componentPath |-> PathJoin(lastSetup.directory, MultiUiComponents)]
         /\ (inv.variant = 2 /\ lastSetup.variant = 1) => inv.pref = [language |-> lower]

\* setup answered {TypeScript, "app/"}, an add ran, and the next add reads
\* {typescript, app/multi-ui/components}
C3_Witness ==
  /\ IsAdd /\ inv.variant = 2 /\ inv.prefState = "stored" /\ runs = 3
  /\ lastSetup = [variant |-> 2, language |-> StrTypeScript, directory |-> <<"app", "">>]
  /\ inv.pref = [language |-> StrTypescriptLower,
                 componentPath |-> <<"app", "multi-ui", "components">>]
  /\ inv.snapFiles # {}

\* C4: with no preference file the read does not raise, returns
\* {typescript, src/app/multi-ui/components} and warns; the add uses that
\* default and the file stays absent.  No add ever changes the preference file.
C4_DefaultPreference ==
  (IsAdd /\ inv.prefState # "unread")
  => /\ config = inv.snapConfig
     /\ ~inv.snapConfig.exists
          => /\ inv.prefState = "default"
             /\ inv.outcome # "toplevel"
             /\ Warned
             /\ inv.language = [def |-> TRUE, v |-> StrTypescriptLower]
             /\ inv.variant = 2
                  => /\ inv.pref = [language |-> StrTypescriptLower,
                                    componentPath |-> HardcodedDefaultDir]
                     /\ inv.componentDir = HardcodedDefaultDir
                     /\ (Ended /\ inv.status = 200)
                          => inv.written = {FilePath(HardcodedDefaultDir, inv.name.value, "tsx")}

\* an add without a preference file has written its component below the
\* default directory and there is still no preference file
C4_Witness ==
  /\ Ended /\ IsAdd /\ inv.variant = 2 /\ inv.prefState = "default" /\ inv.status = 200
  /\ ~config.exists
  /\ \E f \in files : f.path.dir = HardcodedDefaultDir /\ f.path.ext = "tsx"

\* C5: in every add of the language-and-path program whose preference read
\* returned, the directory of the output is a defined path; when the stored
\* preference has no componentPath the hardcoded default is used and a warning
\* is printed; the preference file is not written.
C5_ComponentPathDefined ==
  (IsAdd /\ inv.variant = 2 /\ PrefRead /\ (pc = "v2_fetch" \/ Ended))
  => /\ inv.dirDefined
     /\ "componentPath" \notin DOMAIN inv.pref
          => inv.componentDir = HardcodedDefaultDir /\ Warned
     /\ config = inv.snapConfig

\* C6: in an add a component file is written only if the preference was read,
\* the host answered 200 and (for javascript) the body transformed; a
\* malformed preference file means no request and no write, a failed fetch
\* means no transform and no write, a failed transform means no write.
C6_FailureAborts ==
  IsAdd
  => /\ inv.written # {}
          => /\ PrefRead
             /\ inv.status = 200
             /\ WantsJs => BabelParses(inv.body)
     /\ inv.written = {} => files = inv.snapFiles
     /\ inv.prefState = "threw" => inv.requests = <<>> /\ inv.written = {}
     /\ inv.status \notin {-1, 200} => ~inv.transformCalled /\ inv.written = {}
     /\ (inv.status = 200 /\ WantsJs /\ ~BabelParses(inv.body)) => inv.written = {}

\* javascript is the stored language, the host served a body Babel rejects,
\* and the add ended
C6_Witness ==
  /\ Ended /\ IsAdd /\ inv.variant = 2 /\ WantsJs /\ inv.status = 200
  /\ ~BabelParses(inv.body) /\ inv.transformCalled /\ inv.outcome = "caught"

\* C7: in the program that runs the installer, an installer failure is
\* reported but the prompt still runs and the preference file is still
\* written; the other program never runs the installer; an installer failure
\* never alters an existing preference file.
C7_InstallerDoesNotBlock ==
  (Ended /\ inv.action = "setup")
  => /\ inv.variant = 1 => inv.installer = "none"
     /\ inv.installer = "failed"
          => /\ \E i \in 1..Len(log) : log[i].stream = "stderr"
             /\ inv.prompted
             /\ inv.outcome = "completed" => inv.wroteConfig
             /\ ~inv.wroteConfig => config = inv.snapConfig

\* C8: every error raised in setup or add is caught at the boundary of that
\* operation and a line carrying its message is printed.
C8_ErrorsCaughtAndLogged ==
  (Ended /\ inv.raised.kind # "none")
  => /\ inv.outcome = "caught"
     /\ Logged("stderr", inv.raised.message)

\* C9 as stated: every invocation that is neither setup nor add <name> prints
\* the usage text on standard output and does nothing else.
C9_UsageAlways ==
  (Ended /\ inv.action # "setup" /\ ~IsAdd)
  => /\ log = <<Out(IF inv.variant = 1 THEN UsageV1 ELSE UsageV2)>>
     /\ ~inv.prompted /\ inv.installer = "none" /\ inv.requests = <<>>
     /\ config = inv.snapConfig /\ files = inv.snapFiles /\ dirs = inv.snapDirs

\* C9 amended: such an invocation prompts nothing, requests nothing and
\* changes neither the preference file nor any component file or directory;
\* it prints the usage text on standard output, except that `add` without a
\* name in the language-and-path program prints the line "Please provide a
\* component name. Usage: ..." on standard error instead.
C9_UsageOrMissingName ==
  (Ended /\ inv.action # "setup" /\ ~IsAdd)
  => /\ inv.outcome = "usage" /\ inv.raised.kind = "none"
     /\ ~inv.prompted /\ inv.installer = "none" /\ inv.requests = <<>>
     /\ config = inv.snapConfig /\ files = inv.snapFiles /\ dirs = inv.snapDirs
     /\ IF inv.variant = 2 /\ inv.action = "add"
        THEN log = <<[stream |-> "stderr", text |-> MissingNameV2]>>
        ELSE /\ Len(log) = 1 /\ log[1].stream = "stdout"
             /\ log[1].text = (IF inv.variant = 1 THEN UsageV1 ELSE UsageV2)

\* `add ""` (an empty name) in a project that already has a preference file
\* and a component
C9_Witness ==
  /\ Ended /\ inv.action = "add" /\ inv.name = [given |-> TRUE, value |-> <<>>]
  /\ inv.variant = 2 /\ config.exists /\ files # {}

\* C10 as stated: neither the target directory nor the file is touched before
\* the fetch has succeeded, so a failed fetch leaves the filesystem as it was.
C10_NothingBeforeFetch ==
  IsAdd
  => /\ pc \in {"v1_fetch", "v2_fetch"} => dirs = inv.snapDirs /\ files = inv.snapFiles
     /\ (Ended /\ inv.status \notin {-1, 200})
          => dirs = inv.snapDirs /\ files = inv.snapFiles

\* C10 amended: the stages run in the order preference read, creation of the
\* target directory, fetch, transform (javascript only), file write.  No file
\* is written before the fetch has succeeded; the target directory exists
\* before the request is answered, so an add whose fetch fails leaves every
\* file and the preference file as they were and leaves the target directory
\* (created if it was absent) behind.
C10_FileWriteAfterFetch ==
  IsAdd
  => /\ inv.requests # <<>> => PrefRead /\ inv.dirDefined /\ inv.componentDir \in dirs
     /\ pc \in {"v1_fetch", "v2_fetch"}
          => /\ Len(inv.requests) = 1 /\ inv.status = -1
             /\ files = inv.snapFiles /\ inv.written = {} /\ ~inv.transformCalled
             /\ dirs = inv.snapDirs \cup Prefixes(inv.componentDir)
     /\ inv.transformCalled => inv.status = 200
     /\ inv.written # {} => inv.status = 200
     /\ (Ended /\ inv.status \notin {-1, 200})
          => /\ files = inv.snapFiles /\ config = inv.snapConfig
             /\ dirs = inv.snapDirs \cup Prefixes(inv.componentDir)

\* the first add of a project got a 500: the directory it made is the only
\* change
C10_Witness ==
  /\ Ended /\ IsAdd /\ inv.status = 500 /\ inv.snapDirs = {}
  /\ dirs = Prefixes(inv.componentDir) /\ dirs # {} /\ files = {}

====
